---- MODULE Spec2Model ----
(***************************************************************************)
(* Model of scripts/fetch_data.py (Aave Whale Watch data fetcher).         *)
(*                                                                         *)
(* Two specifications share the variables:                                 *)
(*   Spec         one run of main(): credential check, ETH price fetch,    *)
(*                one fetch_chain_data + file write per configured chain.  *)
(*   SpecProcess  one call of process_user_data on a user list drawn from  *)
(*                bounded sets.                                            *)
(*                                                                         *)
(* Python floats are modelled as exact normalised rationals [num, den];    *)
(* float('inf') is the tagged value Inf.  Wire amounts are scaled down so  *)
(* that every product fits TLC's integers: priceInEth is carried in units  *)
(* of 1e16 wei (so the source's 1e18 divisor is PriceUnitsPerEth = 100)    *)
(* and reserve decimals are 1 or 2.  The wall-clock 'timestamp' field of   *)
(* a document is carried as a fixed token.                                 *)
(***************************************************************************)
EXTENDS Integers, Sequences, FiniteSets, TLC

VARIABLES pc,          \* position of main() / of the process_user_data call
          apiKey,      \* API_KEY is non-empty
          priceReply,  \* what the price service answered to fetch_eth_price
          ethPrice,    \* main's eth_price
          chainIdx,    \* index into SUBGRAPH_IDS of the chain handled next
          files,       \* the files written under OUTPUT_DIR, in write order
          netCalls,    \* number of network requests issued so far
          users,       \* argument of process_user_data (SpecProcess)
          ethArg,      \* eth_price_usd argument of process_user_data
          outcome      \* result of the process_user_data call

vars == <<pc, apiKey, priceReply, ethPrice, chainIdx, files, netCalls,
          users, ethArg, outcome>>

mainVars == <<apiKey, priceReply, ethPrice, chainIdx, files, netCalls>>
callVars == <<users, ethArg, outcome>>

---------------------------------------------------------------------------
\* Bounds of the model
MaxUsers == 2
MaxReserves == 2
BulkCount == 101

---------------------------------------------------------------------------
\* Exact arithmetic standing for Python float arithmetic

RECURSIVE GCD(_, _)
GCD(a, b) == IF b = 0 THEN a ELSE GCD(b, a % b)

Rat(n, d) == LET g == GCD(n, d) IN [num |-> n \div g, den |-> d \div g]

RInt(n) == [num |-> n, den |-> 1]

Zero == RInt(0)

RAdd(x, y) == Rat(x.num * y.den + y.num * x.den, x.den * y.den)

RMul(x, y) == Rat(x.num * y.num, x.den * y.den)

RDiv(x, y) == Rat(x.num * y.den, x.den * y.num)

RLt(x, y) == x.num * y.den < y.num * x.den

RLe(x, y) == x.num * y.den <= y.num * x.den

RPos(x) == x.num > 0

RECURSIVE Pow10(_)
Pow10(n) == IF n = 0 THEN 1 ELSE 10 * Pow10(n - 1)

\* round(x, nd): round half to even at nd decimals
Round(x, nd) ==
    LET scaled == x.num * Pow10(nd)
        q == scaled \div x.den
        r == scaled % x.den
        up == (2 * r > x.den) \/ (2 * r = x.den /\ q % 2 = 1)
    IN Rat(IF up THEN q + 1 ELSE q, Pow10(nd))

\* float('inf') and finite floats as one tagged value
Inf == [inf |-> TRUE, val |-> Zero]

Fin(x) == [inf |-> FALSE, val |-> x]

\* h > m for a tagged h and a finite m
HfGt(h, m) == h.inf \/ RLt(m, h.val)

---------------------------------------------------------------------------
\* Configuration

Chains == <<"ethereum", "arbitrum", "polygon", "base">>

MAX_HEALTH_FACTOR == Rat(3, 2)

MIN_COLLATERAL_USD == 200000

ETH_PRICE_FALLBACK == 3000

PriceUnitsPerEth == 100

BasisPoints == 10000

DefaultLiqThreshold == Rat(8, 10)

---------------------------------------------------------------------------
\* calculate_health_factor

calculate_health_factor_ZeroOnNoDebt(collateral_eth, debt_eth, liq_threshold) ==
    IF debt_eth = Zero THEN Fin(Zero)
    ELSE Fin(RDiv(RMul(collateral_eth, liq_threshold), debt_eth))

calculate_health_factor(collateral_eth, debt_eth, liq_threshold) ==
    IF debt_eth = Zero THEN Inf
    ELSE Fin(RDiv(RMul(collateral_eth, liq_threshold), debt_eth))

---------------------------------------------------------------------------
\* process_user_data: the loop over one user's reserves

PriceInEth(res) == Rat(res.priceInEth, PriceUnitsPerEth)

LiqThreshold(res) == Rat(res.reserveLiquidationThreshold, BasisPoints)

ATokenBalance(res) == Rat(res.currentATokenBalance, Pow10(res.decimals))

CollateralEth(res) == RMul(ATokenBalance(res), PriceInEth(res))

TotalDebt(res) == Rat(res.currentTotalDebt, Pow10(res.decimals))

DebtEth(res) == RMul(TotalDebt(res), PriceInEth(res))

EmptyTotals ==
    [total_collateral_eth |-> Zero, total_debt_eth |-> Zero,
     weighted_liq_threshold |-> Zero,
     collateral_assets |-> <<>>, borrow_assets |-> <<>>, raised |-> FALSE]

ReserveStep(acc, res, eth_price_usd) ==
    LET collateral_eth == CollateralEth(res)
        debt_eth == DebtEth(res)
        a1 == IF RPos(collateral_eth)
              THEN [acc EXCEPT
                      !.collateral_assets = Append(@,
                          [symbol |-> res.symbol,
                           amount |-> ATokenBalance(res),
                           valueEth |-> collateral_eth,
                           valueUsd |-> RMul(collateral_eth, RInt(eth_price_usd)),
                           liqThreshold |-> LiqThreshold(res)]),
                      !.total_collateral_eth = RAdd(@, collateral_eth),
                      !.weighted_liq_threshold =
                          RAdd(@, RMul(collateral_eth, LiqThreshold(res)))]
              ELSE acc
    IN IF RPos(debt_eth)
       THEN [a1 EXCEPT
               !.borrow_assets = Append(@,
                   [symbol |-> res.symbol,
                    amount |-> TotalDebt(res),
                    valueEth |-> debt_eth,
                    valueUsd |-> RMul(debt_eth, RInt(eth_price_usd))]),
               !.total_debt_eth = RAdd(@, debt_eth)]
       ELSE a1

\* int()/float() raise on a non-numeric field: the loop is left by the exception
RECURSIVE ReserveLoop(_, _, _, _)
ReserveLoop(acc, reserves, i, eth_price_usd) ==
    IF i > Len(reserves) THEN acc
    ELSE IF ~reserves[i].numeric THEN [acc EXCEPT !.raised = TRUE]
    ELSE ReserveLoop(ReserveStep(acc, reserves[i], eth_price_usd),
                     reserves, i + 1, eth_price_usd)

Totals(user, eth_price_usd) ==
    ReserveLoop(EmptyTotals, user.reserves, 1, eth_price_usd)

avg_liq_threshold_AlwaysDefault(t) == DefaultLiqThreshold

avg_liq_threshold(t) ==
    IF RPos(t.total_collateral_eth)
    THEN RDiv(t.weighted_liq_threshold, t.total_collateral_eth)
    ELSE DefaultLiqThreshold

health_factor(t) ==
    calculate_health_factor(t.total_collateral_eth, t.total_debt_eth,
                            avg_liq_threshold(t))

collateral_usd(t, eth_price_usd) == RMul(t.total_collateral_eth, RInt(eth_price_usd))

debt_usd(t, eth_price_usd) == RMul(t.total_debt_eth, RInt(eth_price_usd))

\* the two 'continue' filters, with a strict bound on the health factor
FilteredOut_StrictHf(t, eth_price_usd) ==
    \/ ~RLt(health_factor(t).val, MAX_HEALTH_FACTOR)
    \/ health_factor(t).inf
    \/ RLt(collateral_usd(t, eth_price_usd), RInt(MIN_COLLATERAL_USD))

\* the two 'continue' filters
FilteredOut(t, eth_price_usd) ==
    \/ HfGt(health_factor(t), MAX_HEALTH_FACTOR)
    \/ RLt(collateral_usd(t, eth_price_usd), RInt(MIN_COLLATERAL_USD))

\* max(assets, key=valueUsd) taken as the last greatest element
MaxByValueUsd_Last(assets) ==
    LET i == CHOOSE k \in DOMAIN assets :
                /\ \A j \in DOMAIN assets : RLe(assets[j].valueUsd, assets[k].valueUsd)
                /\ \A j \in DOMAIN assets :
                      j > k => RLt(assets[j].valueUsd, assets[k].valueUsd)
    IN assets[i]

\* max(assets, key=valueUsd): the first element of greatest valueUsd
MaxByValueUsd(assets) ==
    LET i == CHOOSE k \in DOMAIN assets :
                /\ \A j \in DOMAIN assets : RLe(assets[j].valueUsd, assets[k].valueUsd)
                /\ \A j \in DOMAIN assets :
                      j < k => RLt(assets[j].valueUsd, assets[k].valueUsd)
    IN assets[i]

MakePosition(user, t, eth_price_usd) ==
    LET hasC == t.collateral_assets # <<>>
        hasB == t.borrow_assets # <<>>
        primary_collateral_data == MaxByValueUsd(t.collateral_assets)
        collateral_amount == IF hasC THEN primary_collateral_data.amount ELSE Zero
        liq_threshold == IF hasC THEN primary_collateral_data.liqThreshold
                         ELSE DefaultLiqThreshold
    IN [address |-> user.id,
        healthFactor |-> Round(health_factor(t).val, 4),
        collateralValue |-> Round(collateral_usd(t, eth_price_usd), 2),
        collateralAmount |-> Round(collateral_amount, 6),
        collateralAsset |-> IF hasC THEN primary_collateral_data.symbol ELSE "Unknown",
        borrowValue |-> Round(debt_usd(t, eth_price_usd), 2),
        borrowAsset |-> IF hasB THEN MaxByValueUsd(t.borrow_assets).symbol
                        ELSE "Unknown",
        liquidationThreshold |-> Round(liq_threshold, 4),
        collateralAssets |-> t.collateral_assets,
        borrowAssets |-> t.borrow_assets]

\* One iteration of the loop over users: the try body and its handler.
\*   escaped   the handler's own user.get raised (the record is no mapping)
\*   absorbed  the handler printed and continued
\*   skip      one of the three 'continue' statements
\*   position  a position was appended
ProcessUser(user, eth_price_usd) ==
    IF ~user.isMapping THEN [kind |-> "escaped"]
    ELSE LET t == Totals(user, eth_price_usd) IN
         IF t.raised THEN [kind |-> "absorbed"]
         ELSE IF t.total_debt_eth = Zero THEN [kind |-> "skip"]
         ELSE IF FilteredOut(t, eth_price_usd) THEN [kind |-> "skip"]
         ELSE IF ~user.hasId THEN [kind |-> "absorbed"]
         ELSE [kind |-> "position",
               position |-> MakePosition(user, t, eth_price_usd)]

\* The loop over us[lo..hi].  An iteration reads only its own user and only
\* appends to positions, so the loop over a range is the loop over its first
\* half followed by the loop over its second half (the recursion is split
\* this way to keep its depth logarithmic); an exception that leaves one
\* iteration leaves the whole loop.
RECURSIVE UserLoop(_, _, _, _)
UserLoop(us, lo, hi, eth_price_usd) ==
    IF lo > hi THEN [raised |-> FALSE, positions |-> <<>>]
    ELSE IF lo = hi
    THEN LET r == ProcessUser(us[lo], eth_price_usd) IN
         IF r.kind = "escaped" THEN [raised |-> TRUE, positions |-> <<>>]
         ELSE IF r.kind = "position"
              THEN [raised |-> FALSE, positions |-> << r.position >>]
              ELSE [raised |-> FALSE, positions |-> <<>>]
    ELSE LET mid == (lo + hi) \div 2
             first == UserLoop(us, lo, mid, eth_price_usd)
         IN IF first.raised THEN first
            ELSE LET rest == UserLoop(us, mid + 1, hi, eth_price_usd) IN
                 IF rest.raised THEN rest
                 ELSE [raised |-> FALSE,
                       positions |-> first.positions \o rest.positions]

process_user_data(us, eth_price_usd) == UserLoop(us, 1, Len(us), eth_price_usd)

---------------------------------------------------------------------------
\* Indexer data: the records of a 'users' reply

\* reserve metadata: symbol, decimals, priceInEth, reserveLiquidationThreshold
Assets ==
    { [symbol |-> "WETH", decimals |-> 1, priceInEth |-> 100,
       reserveLiquidationThreshold |-> 8000],
      [symbol |-> "wstETH", decimals |-> 1, priceInEth |-> 100,
       reserveLiquidationThreshold |-> 8500],
      [symbol |-> "WBTC", decimals |-> 2, priceInEth |-> 2000,
       reserveLiquidationThreshold |-> 7500] }

Balances == {0, 500, 1000}

Debts == {0, 500, 600}

MkReserve(asset, balance, debt) ==
    [symbol |-> asset.symbol, decimals |-> asset.decimals,
     priceInEth |-> asset.priceInEth,
     reserveLiquidationThreshold |-> asset.reserveLiquidationThreshold,
     currentATokenBalance |-> balance, currentTotalDebt |-> debt,
     numeric |-> TRUE]

Reserves == { MkReserve(a, b, d) : a \in Assets, b \in Balances, d \in Debts }

ReserveSeqs == UNION { [1..n -> Reserves] : n \in 0..MaxReserves }

MkUser(id, reserves) ==
    [isMapping |-> TRUE, hasId |-> TRUE, id |-> id, reserves |-> reserves]

\* a list element that is no mapping (null, a string, a list)
NotAMapping == [isMapping |-> FALSE, hasId |-> FALSE, id |-> 0, reserves |-> <<>>]

\* a mapping one of whose reserves carries a non-numeric amount
NonNumericUser ==
    MkUser(0, << [MkReserve(CHOOSE a \in Assets : a.symbol = "WETH", 1000, 600)
                    EXCEPT !.numeric = FALSE] >>)

\* user lists of one user, over every reserve list
RichSingles == { << MkUser(1, rs) >> : rs \in ReserveSeqs }

\* the records lists of several users are made of: one reserve with a full
\* balance, one reserve of 50 ETH, two collateral reserves of equal value, or
\* a malformed record
PoolTemplates ==
    { MkUser(0, << MkReserve(a, 1000, d) >>) : a \in Assets, d \in Debts }
    \cup { MkUser(0, << MkReserve(a, 500, 500) >>) :
             a \in {x \in Assets : x.symbol = "WETH"} }
    \cup { MkUser(0, << MkReserve(CHOOSE a \in Assets : a.symbol = "WETH", 1000, 600),
                        MkReserve(CHOOSE a \in Assets : a.symbol = "wstETH", 1000, 600) >>),
           NotAMapping, NonNumericUser }
    \cup { [MkUser(0, << MkReserve(a, 1000, 600) >>) EXCEPT !.hasId = FALSE] :
             a \in {x \in Assets : x.symbol = "WBTC"} }

\* the indexer orders users by id: the id of a record is its place in the list
WithIds(us) == [i \in DOMAIN us |-> IF us[i].hasId THEN [us[i] EXCEPT !.id = i]
                                    ELSE us[i]]

PoolLists ==
    { WithIds(us) : us \in UNION { [1..n -> PoolTemplates] : n \in 0..MaxUsers } }

AssetOfIndex(i) ==
    CHOOSE a \in Assets :
        a.symbol = (CASE i % 3 = 0 -> "WETH" [] i % 3 = 1 -> "WBTC" [] OTHER -> "wstETH")

\* a full page of borrowers, each with one at-risk position of 100 or 200 ETH
BulkUsers == [i \in 1..BulkCount |-> MkUser(i, << MkReserve(AssetOfIndex(i), 1000, 600) >>)]

LivePrices == {3000, 4000}

---------------------------------------------------------------------------
\* fetch_eth_price

PriceReplies ==
    { [kind |-> "failed", usd |-> 0], [kind |-> "nokey", usd |-> 0] }
    \cup { [kind |-> "ok", usd |-> p] : p \in LivePrices }

fetch_eth_price_NoFallback(reply) ==
    IF reply.kind = "ok" THEN reply.usd ELSE 0

fetch_eth_price(reply) ==
    IF reply.kind = "ok" THEN reply.usd ELSE ETH_PRICE_FALLBACK

---------------------------------------------------------------------------
\* fetch_graphql results and fetch_chain_data

\* result: "None" (transport failure) or "dict"; for a dict, whether it has
\* 'data' and 'errors', whether data is null, whether data.users is null
MkReply(result, hasData, hasErrors, dataNull, usersNull, us, block) ==
    [result |-> result, hasData |-> hasData, hasErrors |-> hasErrors,
     dataNull |-> dataNull, usersNull |-> usersNull, users |-> us,
     blockNumber |-> block]

Risky == MkUser(0, << MkReserve(CHOOSE a \in Assets : a.symbol = "WETH", 1000, 600) >>)

Riskier == MkUser(0, << MkReserve(CHOOSE a \in Assets : a.symbol = "WBTC", 1000, 600) >>)

ReplyUserLists ==
    { <<>>, WithIds(<<Risky, Riskier>>), WithIds(<<NonNumericUser, Risky>>),
      <<NotAMapping>>, BulkUsers }

GraphReplies ==
    { MkReply("None", FALSE, FALSE, FALSE, FALSE, <<>>, 0),
      MkReply("dict", FALSE, FALSE, FALSE, FALSE, <<>>, 0),
      MkReply("dict", FALSE, TRUE, FALSE, FALSE, <<>>, 0),
      MkReply("dict", TRUE, TRUE, TRUE, FALSE, <<>>, 0),
      MkReply("dict", TRUE, FALSE, FALSE, TRUE, <<>>, 19000000) }
    \cup { MkReply("dict", TRUE, FALSE, FALSE, FALSE, us, 19000000) :
             us \in ReplyUserLists }

\* sum(p[field] for p in positions[lo..hi]); the sum is exact, so it is
\* taken by halves to keep the depth of the recursion logarithmic
RECURSIVE SumField(_, _, _, _)
SumField(positions, field, lo, hi) ==
    IF lo > hi THEN Zero
    ELSE IF lo = hi THEN positions[lo][field]
    ELSE LET mid == (lo + hi) \div 2 IN
         RAdd(SumField(positions, field, lo, mid),
              SumField(positions, field, mid + 1, hi))

ErrorDocument(chain) ==
    [positions |-> <<>>,
     meta |-> [chain |-> chain, error |-> "Failed to fetch data",
               timestamp |-> "utcnow"]]

\* [raised, doc]: raised when an exception leaves fetch_chain_data
fetch_chain_data(chain, reply, eth_price) ==
    IF reply.result = "None" \/ ~reply.hasData
    THEN [raised |-> FALSE, doc |-> ErrorDocument(chain)]
    ELSE IF reply.dataNull \/ reply.usersNull
    THEN [raised |-> TRUE, doc |-> ErrorDocument(chain)]
    ELSE LET r == process_user_data(reply.users, eth_price)
             positions == r.positions
         IN IF r.raised THEN [raised |-> TRUE, doc |-> ErrorDocument(chain)]
            ELSE [raised |-> FALSE,
                  doc |-> [positions |-> positions,
                           meta |-> [chain |-> chain,
                                     blockNumber |-> reply.blockNumber,
                                     timestamp |-> "utcnow",
                                     ethPriceUsd |-> eth_price,
                                     filters |-> [maxHealthFactor |-> MAX_HEALTH_FACTOR,
                                                  minCollateralUsd |-> MIN_COLLATERAL_USD],
                                     totalPositions |-> Len(positions),
                                     totalCollateralUsd |->
                                         SumField(positions, "collateralValue", 1, Len(positions)),
                                     totalBorrowUsd |->
                                         SumField(positions, "borrowValue", 1, Len(positions))]]]

---------------------------------------------------------------------------
\* main

NoOutcome == [raised |-> FALSE, positions |-> <<>>]

NoPriceReply == [kind |-> "none", usd |-> 0]

Init ==
    /\ pc = "start"
    /\ apiKey \in BOOLEAN
    /\ priceReply = NoPriceReply
    /\ ethPrice = 0
    /\ chainIdx = 1
    /\ files = <<>>
    /\ netCalls = 0
    /\ users = <<>>
    /\ ethArg = ETH_PRICE_FALLBACK
    /\ outcome = NoOutcome

\* the credential check skipped
CheckApiKey_Ignored ==
    /\ pc = "start"
    /\ pc' = "price"
    /\ UNCHANGED <<mainVars, callVars>>

\* 'if not API_KEY: return'
CheckApiKey ==
    /\ pc = "start"
    /\ pc' = IF apiKey THEN "price" ELSE "exit"
    /\ UNCHANGED <<mainVars, callVars>>

\* eth_price = fetch_eth_price(): one request to the price service
FetchEthPrice ==
    /\ pc = "price"
    /\ \E reply \in PriceReplies :
         /\ priceReply' = reply
         /\ ethPrice' = fetch_eth_price(reply)
    /\ netCalls' = netCalls + 1
    /\ pc' = "chains"
    /\ UNCHANGED <<apiKey, chainIdx, files, callVars>>

\* one iteration of 'for chain, subgraph_id in SUBGRAPH_IDS.items()': the
\* indexer query, fetch_chain_data, and the write of <chain>.json; an
\* exception leaving fetch_chain_data ends main before the write
FetchChain ==
    /\ pc = "chains"
    /\ chainIdx <= Len(Chains)
    /\ \E reply \in GraphReplies :
         LET data == fetch_chain_data(Chains[chainIdx], reply, ethPrice) IN
         IF data.raised
         THEN /\ pc' = "crashed"
              /\ UNCHANGED <<files, chainIdx>>
         ELSE /\ files' = Append(files, [path |-> Chains[chainIdx], doc |-> data.doc])
              /\ chainIdx' = chainIdx + 1
              /\ pc' = pc
    /\ netCalls' = netCalls + 1
    /\ UNCHANGED <<apiKey, priceReply, ethPrice, callVars>>

\* the loop is exhausted: the summary is printed and main returns
Finish ==
    /\ pc = "chains"
    /\ chainIdx > Len(Chains)
    /\ pc' = "done"
    /\ UNCHANGED <<mainVars, callVars>>

Next == CheckApiKey \/ FetchEthPrice \/ FetchChain \/ Finish

Spec == Init /\ [][Next]_vars

---------------------------------------------------------------------------
\* One call of process_user_data

EthArgs == {ETH_PRICE_FALLBACK, 4000}

InitProcess ==
    /\ pc = "call"
    /\ apiKey = TRUE
    /\ priceReply = NoPriceReply
    /\ ethPrice = 0
    /\ chainIdx = 1
    /\ files = <<>>
    /\ netCalls = 0
    /\ users \in RichSingles \cup PoolLists \cup {BulkUsers}
    /\ ethArg \in EthArgs
    /\ outcome = NoOutcome

CallProcessUserData ==
    /\ pc = "call"
    /\ outcome' = process_user_data(users, ethArg)
    /\ pc' = IF outcome'.raised THEN "raised" ELSE "returned"
    /\ UNCHANGED <<mainVars, users, ethArg>>

NextProcess == CallProcessUserData

SpecProcess == InitProcess /\ [][NextProcess]_vars

---------------------------------------------------------------------------
\* The quantities the properties speak of, computed from the indexer record:
\* value = raw amount / 10^decimals x unit price

TopN == 100

ValueOf(res, amount) ==
    Rat(amount * res.priceInEth, Pow10(res.decimals) * PriceUnitsPerEth)

RECURSIVE CollateralValue(_, _)
CollateralValue(rs, n) ==
    IF n = 0 THEN Zero
    ELSE RAdd(CollateralValue(rs, n - 1), ValueOf(rs[n], rs[n].currentATokenBalance))

RECURSIVE DebtValue(_, _)
DebtValue(rs, n) ==
    IF n = 0 THEN Zero
    ELSE RAdd(DebtValue(rs, n - 1), ValueOf(rs[n], rs[n].currentTotalDebt))

RECURSIVE WeightedThresholdSum(_, _)
WeightedThresholdSum(rs, n) ==
    IF n = 0 THEN Zero
    ELSE RAdd(WeightedThresholdSum(rs, n - 1),
              RMul(ValueOf(rs[n], rs[n].currentATokenBalance),
                   Rat(rs[n].reserveLiquidationThreshold, 10000)))

Numeric(u) == u.isMapping /\ \A k \in DOMAIN u.reserves : u.reserves[k].numeric

WellFormed(u) == Numeric(u) /\ u.hasId

TotalCollateral(u) == CollateralValue(u.reserves, Len(u.reserves))

TotalDebtValue(u) == DebtValue(u.reserves, Len(u.reserves))

TotalCollateralUsd(u) == RMul(TotalCollateral(u), RInt(ethArg))

WeightedAvgThreshold(u) ==
    IF RPos(TotalCollateral(u))
    THEN RDiv(WeightedThresholdSum(u.reserves, Len(u.reserves)), TotalCollateral(u))
    ELSE Rat(8, 10)

HealthFactorOf(u) ==
    RDiv(RMul(TotalCollateral(u), WeightedAvgThreshold(u)), TotalDebtValue(u))

\* the first reserve of greatest collateral value
PrimaryCollateralReserve(u) ==
    LET v(k) == ValueOf(u.reserves[k], u.reserves[k].currentATokenBalance)
        i == CHOOSE k \in DOMAIN u.reserves :
                /\ \A j \in DOMAIN u.reserves : RLe(v(j), v(k))
                /\ \A j \in DOMAIN u.reserves : j < k => RLt(v(j), v(k))
    IN u.reserves[i]

Returned == pc = "returned"

Addresses == { outcome.positions[k].address : k \in DOMAIN outcome.positions }

PositionOf(id) ==
    outcome.positions[CHOOSE k \in DOMAIN outcome.positions :
                          outcome.positions[k].address = id]

UserOf(address) == users[CHOOSE k \in DOMAIN users : users[k].id = address]

Emitted(u) == Returned /\ WellFormed(u) /\ u.id \in Addresses

CollateralSymbols(u) ==
    { u.reserves[k].symbol : k \in { j \in DOMAIN u.reserves :
                                       u.reserves[j].currentATokenBalance > 0 } }

---------------------------------------------------------------------------
\* Properties of process_user_data (checked under SpecProcess)

\* C1: a user record whose total debt value is 0 has an infinite health
\* factor and is in no returned positions list, whatever its collateral.
C1_ZeroDebtExcluded ==
    \A i \in DOMAIN users :
        (Numeric(users[i]) /\ TotalDebtValue(users[i]) = Zero) =>
            /\ health_factor(Totals(users[i], ethArg)).inf
            /\ Returned => \A k \in DOMAIN outcome.positions :
                              outcome.positions[k].address # users[i].id

\* a zero-debt user with collateral above the minimum went through a call
\* that returned another user's position
C1_Witness ==
    /\ Returned
    /\ outcome.positions # <<>>
    /\ \E i \in DOMAIN users :
          /\ WellFormed(users[i])
          /\ TotalDebtValue(users[i]) = Zero
          /\ RLe(RInt(MIN_COLLATERAL_USD), TotalCollateralUsd(users[i]))

\* C2: a well-formed user is retained iff its health factor <= 1.5 and its
\* collateral value in USD >= 200000 and its debt value > 0 (both inclusive).
C2_RetainedIff ==
    Returned =>
        \A i \in DOMAIN users :
            WellFormed(users[i]) =>
                ( users[i].id \in Addresses
                  <=> /\ RPos(TotalDebtValue(users[i]))
                      /\ RLe(HealthFactorOf(users[i]), Rat(3, 2))
                      /\ RLe(RInt(200000), TotalCollateralUsd(users[i])) )

\* one call retained a user of health factor exactly 1.5 and a user of
\* collateral exactly 200000 USD
C2_Witness ==
    /\ Returned
    /\ \E i \in DOMAIN users :
          /\ Emitted(users[i])
          /\ HealthFactorOf(users[i]) = Rat(3, 2)
    /\ \E i \in DOMAIN users :
          /\ Emitted(users[i])
          /\ TotalCollateralUsd(users[i]) = RInt(200000)

\* C7: the health factor is (collateral x weighted-average threshold) / debt,
\* the weighted average being sum(value_i x threshold_i) / sum(value_i) and
\* 0.8 only when the collateral value is 0.
C7_HealthFactorFormula ==
    \A i \in DOMAIN users :
        (Numeric(users[i]) /\ RPos(TotalDebtValue(users[i]))) =>
            /\ avg_liq_threshold(Totals(users[i], ethArg)) = WeightedAvgThreshold(users[i])
            /\ health_factor(Totals(users[i], ethArg)) = Fin(HealthFactorOf(users[i]))
            /\ Emitted(users[i]) =>
                  PositionOf(users[i].id).healthFactor = Round(HealthFactorOf(users[i]), 4)

\* a retained user holds two collateral assets of equal value with thresholds
\* 0.80 and 0.85: the weighted average is 0.825; another retained user has
\* collateral 300000 USD at threshold 0.8 and debt 180000 USD: its health
\* factor is 4/3, emitted as 1.3333
C7_Witness ==
    /\ Returned
    /\ \E j \in DOMAIN users :
          /\ Emitted(users[j])
          /\ TotalCollateralUsd(users[j]) = RInt(300000)
          /\ RMul(TotalDebtValue(users[j]), RInt(ethArg)) = RInt(180000)
          /\ avg_liq_threshold(Totals(users[j], ethArg)) = Rat(8, 10)
          /\ health_factor(Totals(users[j], ethArg)) = Fin(Rat(4, 3))
          /\ PositionOf(users[j].id).healthFactor = Rat(13333, 10000)
    /\ \E i \in DOMAIN users :
          /\ Emitted(users[i])
          /\ Len(users[i].reserves) = 2
          /\ users[i].reserves[1].reserveLiquidationThreshold = 8000
          /\ users[i].reserves[2].reserveLiquidationThreshold = 8500
          /\ users[i].reserves[1].currentATokenBalance > 0
          /\ ValueOf(users[i].reserves[1], users[i].reserves[1].currentATokenBalance)
               = ValueOf(users[i].reserves[2], users[i].reserves[2].currentATokenBalance)
          /\ avg_liq_threshold(Totals(users[i], ethArg)) = Rat(825, 1000)

Failing(u) == ProcessUser(u, ethArg).kind \in {"escaped", "absorbed"}

\* C10: a failure on one user record is absorbed: the call returns, and the
\* positions are those of the input without the failing records.
C10_FailureAbsorbed ==
    pc \in {"returned", "raised"} =>
        /\ Returned
        /\ outcome.positions
             = process_user_data(SelectSeq(users, LAMBDA u : ~Failing(u)), ethArg).positions

---------------------------------------------------------------------------
\* Properties of a run of main (checked under Spec)

\* C3: the positions of every chain result are non-decreasing in health factor.
C3_SortedByHealthFactor ==
    \A f \in DOMAIN files :
        \A k \in 1..(Len(files[f].doc.positions) - 1) :
            RLe(files[f].doc.positions[k].healthFactor,
                files[f].doc.positions[k + 1].healthFactor)

\* C4: the positions of a chain result never number more than top_n.
C4_AtMostTopN ==
    \A f \in DOMAIN files : Len(files[f].doc.positions) <= TopN

\* C5: once the credential check has passed, a finished run has written one
\* document per configured chain, whatever the indexer returned.
C5_OneDocumentPerChain ==
    (apiKey /\ pc \in {"done", "crashed"}) =>
        /\ Len(files) = Len(Chains)
        /\ \A f \in DOMAIN files : files[f].path = Chains[f]

\* C6: without the credential, main ends before any network request: no
\* price fetch, no indexer query, no chain processed.
C6_NoNetworkWithoutKey ==
    ~apiKey =>
        /\ netCalls = 0
        /\ files = <<>>
        /\ chainIdx = 1
        /\ priceReply = NoPriceReply
        /\ pc \in {"start", "exit"}

\* main has returned at the credential check
C6_Witness == ~apiKey /\ pc = "exit"

FallbackUsed ==
    priceReply.kind \in {"failed", "nokey"} =>
        /\ ethPrice = 3000
        /\ netCalls = 1 => pc = "chains"

====
